---------------------------- MODULE Spec2Model ----------------------------
(***************************************************************************)
(* Model of the Stockfish supervisor of src/evaluator.py: the module-level *)
(* handle slot _engine, the lifecycle helpers (_spawn_engine,              *)
(* _warmup_engine, _hard_reset_engine, _get_engine, close_engine) and the  *)
(* public evaluate_position.  Each caller walks through the statements of  *)
(* the function it runs; the transport (popen_uci, configure, analyse,     *)
(* quit) is the environment and may fail at every call.                    *)
(***************************************************************************)
EXTENDS Integers, Sequences, FiniteSets, TLC

VARIABLES
    engine,     \* the global _engine: NoHandle (None) or a handle
    proc,       \* per handle: the state of the external process behind it
    spawns,     \* number of popen_uci calls made so far (the spawn counter)
    pc,         \* per caller: the statement it is at
    op,         \* per caller: the entry point it runs
    req,        \* per caller: input_data of the running evaluate_position
    board,      \* per caller: side_to_move of the parsed board
    loc,        \* per caller: local `engine` of _spawn_engine
    eng,        \* per caller: local `engine` of evaluate_position
    info,       \* per caller: what analyse returned
    exc,        \* per caller: type name of the exception being handled
    result,     \* per caller: what the call returned or raised
    trace,      \* per caller: the side effects of the running call, in order
    slot0,      \* per caller: _engine when the call started
    condemned,  \* handles that were in the slot when a call failed
    crashed,    \* an analyse has failed and no valid request was made since
    recovering, \* per caller: the call is the first valid one after that
    prev,       \* the entry point of the call that returned last
    configs,    \* per handle: number of configure calls made on it
    quits       \* per handle: number of quit calls made on it

vars == <<engine, proc, spawns, pc, op, req, board, loc, eng, info, exc,
          result, trace, slot0, condemned, crashed, recovering, prev,
          configs, quits>>

-----------------------------------------------------------------------------
(* Bounds *)

MaxSpawns == 3      \* popen_uci calls explored
NumCallers == 2     \* callers of the public API
MaxConcSpawns == 2  \* popen_uci calls explored when calls interleave
MaxOps == 2         \* calls counted per handle; the counters stop there

(* Program constants *)

DEFAULT_TIME_MS == 100
NoHandle == 0

Callers == 1..NumCallers
Handles == 1..MaxSpawns

Null == <<>>
Some(v) == <<v>>

-----------------------------------------------------------------------------
(* Inputs: input_data.get("fen") and input_data.get("time_ms", DEFAULT).   *)
(* A fen is one of: not a str, the empty str, a str chess.Board rejects,   *)
(* a position with white to move, a position with black to move.           *)

FenInputs == {"nonstr", "empty", "malformed", "white", "black"}

TimeInputs ==
    {[kind |-> "absent", v |-> 0]} \cup
    {[kind |-> "int", v |-> n] : n \in {-5, 0, 100}} \cup
    {[kind |-> "bool", v |-> b] : b \in {0, 1}} \cup
    {[kind |-> k, v |-> 0] : k \in {"float", "str", "none"}}

Requests == [fen : FenInputs, time_ms : TimeInputs]

NoRequest == [fen |-> "nonstr", time_ms |-> [kind |-> "none", v |-> 0]]

\* line 113: the value bound to time_ms
TimeMs(r) ==
    IF r.time_ms.kind = "absent"
    THEN [kind |-> "int", v |-> DEFAULT_TIME_MS]
    ELSE r.time_ms

\* isinstance(fen, str)
IsStr(f) == f # "nonstr"

\* isinstance(time_ms, int): bool is a subclass of int
IsInt(t) == t.kind \in {"int", "bool"}

\* as Validates, with `time_ms < 0` for `time_ms <= 0`
ValidatesNonNegative(r) ==
    /\ IsStr(r.fen)
    /\ IsInt(TimeMs(r)) /\ ~(TimeMs(r).v < 0)

\* lines 115-119: TRUE when neither ValueError is raised
Validates(r) ==
    /\ IsStr(r.fen)
    /\ IsInt(TimeMs(r)) /\ ~(TimeMs(r).v <= 0)

\* line 121: chess.Board(fen) raises ValueError for an empty or malformed fen
BoardParses(f) == f \in {"white", "black"}

\* line 122: board.turn
Turn(f) == f

-----------------------------------------------------------------------------
(* What analyse can return: an info dict with an optional "pv" and an      *)
(* optional "score".  A score is a PovScore: a value relative to `turn`.   *)

Relatives == {[kind |-> "cp", v |-> 35], [kind |-> "cp", v |-> -35],
              [kind |-> "mate", v |-> 2], [kind |-> "mate", v |-> -1]}

PvValues == {"absent", "empty", "e7e5"}

NoInfo == [pv |-> "absent", score |-> Null]

Infos(side) ==
    [pv : PvValues,
     score : {Null} \cup {Some([relative |-> s, turn |-> side]) : s \in Relatives}]

\* as Pov, with the score taken from white's point of view
PovWhite(ps, color) ==
    IF ps.turn = "white" THEN ps.relative
    ELSE [kind |-> ps.relative.kind, v |-> 0 - ps.relative.v]

\* PovScore.pov(color)
Pov(ps, color) ==
    IF ps.turn = color THEN ps.relative
    ELSE [kind |-> ps.relative.kind, v |-> 0 - ps.relative.v]

\* line 134
BestMove(i) == IF i.pv \in {"absent", "empty"} THEN Null ELSE Some(i.pv)

NoResult == [kind |-> "none", type |-> "", value |-> Null,
             best_move_uci |-> Null, ok |-> FALSE]

Raised == [kind |-> "raise", type |-> "ValueError", value |-> Null,
           best_move_uci |-> Null, ok |-> FALSE]

Closed == [kind |-> "return", type |-> "", value |-> Null,
           best_move_uci |-> Null, ok |-> FALSE]

\* as FailResult, with 0 for the missing value
FailResultZero == [kind |-> "return", type |-> "cp", value |-> Some(0),
                   best_move_uci |-> Null, ok |-> FALSE]

\* lines 169-176
FailResult == [kind |-> "return", type |-> "cp", value |-> Null,
               best_move_uci |-> Null, ok |-> FALSE]

\* as Normalize, with the test for a mate score left out
NormalizeCpOnly(i, side) ==
    LET score == Pov(i.score[1], side)
    IN  [kind |-> "return",
         type |-> "cp",
         value |-> IF score.kind = "mate" THEN Null ELSE Some(score.v),
         best_move_uci |-> BestMove(i),
         ok |-> TRUE]

\* lines 136-155, for an info that has a score
Normalize(i, side) ==
    LET score == Pov(i.score[1], side)
    IN  [kind |-> "return",
         type |-> IF score.kind = "mate" THEN "mate" ELSE "cp",
         value |-> Some(score.v),
         best_move_uci |-> BestMove(i),
         ok |-> TRUE]

-----------------------------------------------------------------------------
(* Side effects, as recorded in a call's trace *)

Ev(o, h, r) == [op |-> o, h |-> h, res |-> r]

\* as NeedsSpawn, with a spawn on every acquire
AlwaysSpawn(e) == TRUE

\* as NeedsSpawn, with the test inverted
SpawnsWhenHeld(e) == e # NoHandle

\* line 73: `if _engine is None`
NeedsSpawn(e) == e = NoHandle

\* line 61: `if _engine is not None`
HoldsHandle(e) == e # NoHandle

\* as StoredHandle, with the new handle not kept in the global
NotStored(h) == NoHandle

\* line 74: what _get_engine stores in _engine
StoredHandle(h) == h

\* as SlotAfterReset, with the slot not cleared
KeepSlot(cur) == cur

\* line 67: `_engine = None`
SlotAfterReset(cur) == NoHandle

\* as AfterParseError, with chess.Board(fen) inside the try block
ParseErrorInTry == "except"

\* line 121 is outside the try block: the ValueError of chess.Board leaves
\* evaluate_position
AfterParseError == "done"

\* as AfterReset, with evaluate_position trying again after the reset
RetryAfterReset(o) == IF o = "evaluate" THEN "get_engine" ELSE "done"

\* lines 165-176: after the reset evaluate_position returns; close_engine too
AfterReset(o) == "done"

\* as AfterPopen, with the options not applied
SkipsConfigure == "warmup"

\* lines 44-45: configure follows popen_uci
AfterPopen == "configure"

\* as Reason, with the reason left out of the log entry
ReasonDropped(e) == ""

\* lines 59, 80, 163: the reason logged by _hard_reset_engine
Reason(e) == e

\* as AfterWarmupError, with the exception of the warm-up not caught
WarmupErrorFatal == "except"

\* lines 36-38: an exception of the warm-up analyse is swallowed
AfterWarmupError == "store"

\* as AfterQuitError, with the exception of quit not caught
QuitErrorEscapes == "done"

\* lines 64-65: an exception of quit is swallowed
AfterQuitError == "clear"

Idle(c) == pc[c] = "idle"

Inc(n) == IF n < MaxOps THEN n + 1 ELSE n

Active == {d \in Callers : pc[d] \notin {"idle", "done"}}

Init ==
    /\ engine = NoHandle
    /\ proc = [h \in Handles |-> "unborn"]
    /\ spawns = 0
    /\ pc = [c \in Callers |-> "idle"]
    /\ op = [c \in Callers |-> "none"]
    /\ req = [c \in Callers |-> NoRequest]
    /\ board = [c \in Callers |-> "white"]
    /\ loc = [c \in Callers |-> NoHandle]
    /\ eng = [c \in Callers |-> NoHandle]
    /\ info = [c \in Callers |-> NoInfo]
    /\ exc = [c \in Callers |-> ""]
    /\ result = [c \in Callers |-> NoResult]
    /\ trace = [c \in Callers |-> <<>>]
    /\ slot0 = [c \in Callers |-> NoHandle]
    /\ condemned = {}
    /\ crashed = FALSE
    /\ recovering = [c \in Callers |-> FALSE]
    /\ prev = "none"
    /\ configs = [h \in Handles |-> 0]
    /\ quits = [h \in Handles |-> 0]

-----------------------------------------------------------------------------
(* evaluate_position, lines 112-123: validation and parsing.  Nothing      *)
(* shared is read or written, so the prologue is one step.                 *)

EvaluateCall(c, r) ==
    /\ Idle(c)
    /\ UNCHANGED <<prev, configs, quits>>
    /\ spawns + Cardinality(Active) < MaxSpawns
    /\ op' = [op EXCEPT ![c] = "evaluate"]
    /\ req' = [req EXCEPT ![c] = r]
    /\ slot0' = [slot0 EXCEPT ![c] = engine]
    /\ IF ~Validates(r)
       THEN \* lines 116, 119
            /\ pc' = [pc EXCEPT ![c] = "done"]
            /\ result' = [result EXCEPT ![c] = Raised]
            /\ UNCHANGED <<board, exc, crashed, recovering>>
       ELSE IF ~BoardParses(r.fen)
       THEN \* line 121
            /\ pc' = [pc EXCEPT ![c] = AfterParseError]
            /\ result' = [result EXCEPT ![c] =
                            IF AfterParseError = "done" THEN Raised ELSE NoResult]
            /\ exc' = [exc EXCEPT ![c] = "ValueError"]
            /\ UNCHANGED <<board, crashed, recovering>>
       ELSE \* lines 122-123
            /\ pc' = [pc EXCEPT ![c] = "get_engine"]
            /\ board' = [board EXCEPT ![c] = Turn(r.fen)]
            /\ recovering' = [recovering EXCEPT ![c] = crashed]
            /\ crashed' = FALSE
            /\ UNCHANGED <<result, exc>>
    /\ UNCHANGED <<engine, proc, spawns, loc, eng, info, trace, condemned>>

(* _get_engine, line 73 *)
GetEngine(c) ==
    /\ pc[c] = "get_engine"
    /\ UNCHANGED <<prev, configs, quits>>
    /\ pc' = [pc EXCEPT ![c] = IF NeedsSpawn(engine) THEN "spawn" ELSE "return_engine"]
    /\ UNCHANGED <<engine, proc, spawns, op, req, board, loc, eng, info, exc,
                   result, trace, slot0, condemned, crashed, recovering>>

(* _spawn_engine, lines 42-44: the log entry, then popen_uci *)
Popen(c) ==
    /\ pc[c] = "spawn"
    /\ UNCHANGED <<prev, configs, quits>>
    /\ spawns < MaxSpawns
    /\ spawns' = spawns + 1
    /\ \E ok \in BOOLEAN :
         IF ok
         THEN /\ proc' = [proc EXCEPT ![spawns'] = "running"]
              /\ loc' = [loc EXCEPT ![c] = spawns']
              /\ pc' = [pc EXCEPT ![c] = AfterPopen]
              /\ trace' = [trace EXCEPT ![c] =
                              @ \o <<Ev("log_spawn", NoHandle, ""), Ev("popen", spawns', "ok")>>]
              /\ exc' = exc
         ELSE /\ pc' = [pc EXCEPT ![c] = "except"]
              /\ exc' = [exc EXCEPT ![c] = "FileNotFoundError"]
              /\ trace' = [trace EXCEPT ![c] =
                              @ \o <<Ev("log_spawn", NoHandle, ""), Ev("popen", NoHandle, "raise")>>]
              /\ UNCHANGED <<proc, loc>>
    /\ UNCHANGED <<engine, op, req, board, eng, info, result, slot0, condemned,
                   crashed, recovering>>

(* _spawn_engine, line 45: an exception leaves _spawn_engine and           *)
(* _get_engine; the started process is referenced by nothing any more      *)
Configure(c) ==
    /\ pc[c] = "configure"
    /\ UNCHANGED <<prev, quits>>
    /\ configs' = [configs EXCEPT ![loc[c]] = Inc(@)]
    /\ \E ok \in BOOLEAN :
         /\ trace' = [trace EXCEPT ![c] =
                         Append(@, Ev("configure", loc[c], IF ok THEN "ok" ELSE "raise"))]
         /\ IF ok
            THEN /\ pc' = [pc EXCEPT ![c] = "warmup"]
                 /\ UNCHANGED <<exc, loc>>
            ELSE /\ pc' = [pc EXCEPT ![c] = "except"]
                 /\ exc' = [exc EXCEPT ![c] = "EngineError"]
                 /\ loc' = [loc EXCEPT ![c] = NoHandle]
    /\ UNCHANGED <<engine, proc, spawns, op, req, board, eng, info, result,
                   slot0, condemned, crashed, recovering>>

(* _warmup_engine, lines 29-38, and the return of line 49 *)
Warmup(c) ==
    /\ pc[c] = "warmup"
    /\ UNCHANGED <<prev, configs, quits>>
    /\ \E ok \in BOOLEAN :
         /\ trace' = [trace EXCEPT ![c] =
                         Append(@, Ev("warmup", loc[c], IF ok THEN "ok" ELSE "raise"))]
         /\ pc' = [pc EXCEPT ![c] = IF ok THEN "store" ELSE AfterWarmupError]
         /\ exc' = [exc EXCEPT ![c] =
                       IF ok \/ AfterWarmupError = "store" THEN @ ELSE "EngineTerminatedError"]
    /\ UNCHANGED <<engine, proc, spawns, op, req, board, loc, eng, info, result,
                   slot0, condemned, crashed, recovering>>

(* _get_engine, line 74: the assignment to the global *)
Store(c) ==
    /\ pc[c] = "store"
    /\ UNCHANGED <<prev, configs, quits>>
    /\ engine' = StoredHandle(loc[c])
    /\ loc' = [loc EXCEPT ![c] = NoHandle]
    /\ pc' = [pc EXCEPT ![c] = "return_engine"]
    /\ UNCHANGED <<proc, spawns, op, req, board, eng, info, exc, result, trace,
                   slot0, condemned, crashed, recovering>>

(* _get_engine, line 76, and the assignment of line 130: the global is read *)
ReturnEngine(c) ==
    /\ pc[c] = "return_engine"
    /\ UNCHANGED <<prev, configs, quits>>
    /\ eng' = [eng EXCEPT ![c] = engine]
    /\ pc' = [pc EXCEPT ![c] = "analyse"]
    /\ UNCHANGED <<engine, proc, spawns, op, req, board, loc, info, exc, result,
                   trace, slot0, condemned, crashed, recovering>>

(* evaluate_position, line 131.  Calling analyse on None raises            *)
(* AttributeError; a process that has exited cannot answer; a running one  *)
(* answers or fails.                                                       *)
Analyse(c) ==
    /\ pc[c] = "analyse"
    /\ UNCHANGED <<prev, configs, quits>>
    /\ \E ok \in BOOLEAN :
         /\ ok => eng[c] # NoHandle /\ proc[eng[c]] = "running"
         /\ trace' = [trace EXCEPT ![c] =
                         Append(@, Ev("analyse", eng[c], IF ok THEN "ok" ELSE "raise"))]
         /\ IF ok
            THEN /\ \E i \in Infos(board[c]) : info' = [info EXCEPT ![c] = i]
                 /\ pc' = [pc EXCEPT ![c] = "normalize"]
                 /\ UNCHANGED <<exc, crashed>>
            ELSE /\ pc' = [pc EXCEPT ![c] = "except"]
                 /\ exc' = [exc EXCEPT ![c] = IF eng[c] = NoHandle
                                              THEN "AttributeError"
                                              ELSE "EngineTerminatedError"]
                 /\ crashed' = (crashed \/ eng[c] # NoHandle)
                 /\ info' = info
    /\ UNCHANGED <<engine, proc, spawns, op, req, board, loc, eng, result,
                   slot0, condemned, recovering>>

(* evaluate_position, lines 133-155: info["score"] raises KeyError when    *)
(* the engine reported no score                                            *)
NormalizeStep(c) ==
    /\ pc[c] = "normalize"
    /\ UNCHANGED <<prev, configs, quits>>
    /\ IF info[c].score = Null
       THEN /\ pc' = [pc EXCEPT ![c] = "except"]
            /\ exc' = [exc EXCEPT ![c] = "KeyError"]
            /\ UNCHANGED result
       ELSE /\ pc' = [pc EXCEPT ![c] = "done"]
            /\ result' = [result EXCEPT ![c] = Normalize(info[c], board[c])]
            /\ UNCHANGED exc
    /\ UNCHANGED <<engine, proc, spawns, op, req, board, loc, eng, info, trace,
                   slot0, condemned, crashed, recovering>>

(* evaluate_position, lines 157-163: the handler logs and calls            *)
(* _hard_reset_engine with the exception's type name                       *)
Except(c) ==
    /\ pc[c] = "except"
    /\ UNCHANGED <<prev, configs, quits>>
    /\ pc' = [pc EXCEPT ![c] = "reset"]
    /\ UNCHANGED <<engine, proc, spawns, op, req, board, loc, eng, info, exc,
                   result, trace, slot0, condemned, crashed, recovering>>

(* close_engine, lines 79-80 *)
CloseCall(c) ==
    /\ Idle(c)
    /\ UNCHANGED <<prev, configs, quits>>
    /\ op' = [op EXCEPT ![c] = "close"]
    /\ exc' = [exc EXCEPT ![c] = "manual close"]
    /\ slot0' = [slot0 EXCEPT ![c] = engine]
    /\ pc' = [pc EXCEPT ![c] = "reset"]
    /\ UNCHANGED <<engine, proc, spawns, req, board, loc, eng, info, result,
                   trace, condemned, crashed, recovering>>

(* _hard_reset_engine, lines 59-61: the log entry, then the test of the slot *)
HardReset(c) ==
    /\ pc[c] = "reset"
    /\ UNCHANGED <<prev, configs, quits>>
    /\ trace' = [trace EXCEPT ![c] = Append(@, Ev("log_reset", NoHandle, Reason(exc[c])))]
    /\ pc' = [pc EXCEPT ![c] = IF HoldsHandle(engine) THEN "quit" ELSE "clear"]
    /\ condemned' = condemned \cup ({engine} \ {NoHandle})
    /\ UNCHANGED <<engine, proc, spawns, op, req, board, loc, eng, info, exc,
                   result, slot0, crashed, recovering>>

(* _hard_reset_engine, lines 62-65: _engine.quit() reads the global again. *)
(* A quit that returns has ended the process; a quit that raises leaves    *)
(* the process either way.                                                 *)
Quit(c) ==
    /\ pc[c] = "quit"
    /\ UNCHANGED <<prev, configs>>
    /\ quits' = IF engine = NoHandle THEN quits ELSE [quits EXCEPT ![engine] = Inc(@)]
    /\ \E ok \in BOOLEAN, alive \in BOOLEAN :
         /\ ok => engine # NoHandle /\ proc[engine] = "running"
         /\ ok => ~alive
         /\ alive => engine # NoHandle /\ proc[engine] = "running"
         /\ trace' = [trace EXCEPT ![c] =
                         Append(@, Ev("quit", engine, IF ok THEN "ok" ELSE "raise"))]
         /\ proc' = IF engine = NoHandle \/ alive THEN proc
                    ELSE [proc EXCEPT ![engine] = "terminated"]
         /\ pc' = [pc EXCEPT ![c] = IF ok THEN "clear" ELSE AfterQuitError]
    /\ UNCHANGED <<engine, spawns, op, req, board, loc, eng, info, exc, result,
                   slot0, condemned, crashed, recovering>>

(* _hard_reset_engine, line 67, and the return: lines 169-176 for          *)
(* evaluate_position, nothing for close_engine                             *)
Clear(c) ==
    /\ pc[c] = "clear"
    /\ UNCHANGED <<prev, configs, quits>>
    /\ engine' = SlotAfterReset(engine)
    /\ pc' = [pc EXCEPT ![c] = AfterReset(op[c])]
    /\ result' = [result EXCEPT ![c] =
                    IF AfterReset(op[c]) # "done" THEN NoResult
                    ELSE IF op[c] = "evaluate" THEN FailResult ELSE Closed]
    /\ UNCHANGED <<proc, spawns, op, req, board, loc, eng, info, exc, trace,
                   slot0, condemned, crashed, recovering>>

(* the caller takes the result; the locals of the call are gone *)
Return(c) ==
    /\ pc[c] = "done"
    /\ pc' = [pc EXCEPT ![c] = "idle"]
    /\ op' = [op EXCEPT ![c] = "none"]
    /\ req' = [req EXCEPT ![c] = NoRequest]
    /\ board' = [board EXCEPT ![c] = "white"]
    /\ loc' = [loc EXCEPT ![c] = NoHandle]
    /\ eng' = [eng EXCEPT ![c] = NoHandle]
    /\ info' = [info EXCEPT ![c] = NoInfo]
    /\ exc' = [exc EXCEPT ![c] = ""]
    /\ result' = [result EXCEPT ![c] = NoResult]
    /\ trace' = [trace EXCEPT ![c] = <<>>]
    /\ slot0' = [slot0 EXCEPT ![c] = NoHandle]
    /\ recovering' = [recovering EXCEPT ![c] = FALSE]
    /\ prev' = op[c]
    /\ UNCHANGED <<configs, quits>>
    /\ UNCHANGED <<engine, proc, spawns, condemned, crashed>>

-----------------------------------------------------------------------------
(* Single-caller execution: one caller makes all the calls, one at a time *)

Main == CHOOSE c \in Callers : \A d \in Callers : c <= d

Evaluate == \E r \in Requests : EvaluateCall(Main, r)

Close == CloseCall(Main)

Step(c) ==
    \/ GetEngine(c) \/ Popen(c) \/ Configure(c) \/ Warmup(c) \/ Store(c)
    \/ ReturnEngine(c) \/ Analyse(c) \/ NormalizeStep(c) \/ Except(c)
    \/ HardReset(c) \/ Quit(c) \/ Clear(c)

Next == Evaluate \/ Close \/ Step(Main) \/ Return(Main)

Spec == Init /\ [][Next]_vars

(* Each statement of a running call is eventually executed: the transport  *)
(* operations return or raise, and nothing else in a call waits            *)
LiveSpec == Spec /\ WF_vars(Step(Main))

(* Callers on separate threads: calls start at any time and their          *)
(* statements interleave                                                   *)

ConcRequests == {r \in Requests : r.fen = "black" /\ r.time_ms.kind = "absent"}

ConcEvaluate(c) ==
    /\ spawns + Cardinality(Active) < MaxConcSpawns
    /\ \E r \in ConcRequests : EvaluateCall(c, r)

NextConc == \E c \in Callers : ConcEvaluate(c) \/ CloseCall(c) \/ Step(c) \/ Return(c)

SpecConc == Init /\ [][NextConc]_vars

-----------------------------------------------------------------------------
(* Properties *)

Done(c) == pc[c] = "done"

Count(tr, o) == Cardinality({i \in DOMAIN tr : tr[i].op = o})

Has(tr, o, r) == \E i \in DOMAIN tr : tr[i].op = o /\ tr[i].res = r

\* the handles the call's real analyse was invoked on
AnalysedOn(tr) == {tr[i].h : i \in {j \in DOMAIN tr : tr[j].op = "analyse"}}

\* the handles the call started a process for
StartedBy(tr) ==
    {tr[i].h : i \in {j \in DOMAIN tr : tr[j].op = "popen" /\ tr[j].res = "ok"}}

\* a positive integer time budget (or none given) and a position the
\* parser accepts, as the interface describes a valid request
ValidRequest(r) ==
    /\ r.fen \in {"white", "black"}
    /\ \/ r.time_ms.kind = "absent"
       \/ r.time_ms.kind = "int" /\ r.time_ms.v > 0

\* a time budget that is 0, negative or of a type that is no integer
\* (float, str, None), or a position that is no string or is empty
BadShape(r) ==
    \/ r.time_ms.kind = "int" /\ r.time_ms.v <= 0
    \/ r.time_ms.kind \in {"float", "str", "none"}
    \/ r.fen \in {"nonstr", "empty"}

\* no transport operation of the call raised and analyse reported a score
Healthy(c) ==
    /\ \A i \in DOMAIN trace[c] :
          trace[c][i].res = "raise" =>
              trace[c][i].op = "analyse" /\ trace[c][i].h = NoHandle
    /\ Has(trace[c], "analyse", "ok") => info[c].score # Null

\* a fault while spawning, configuring, analysing or normalizing
Faulted(c) ==
    \/ Has(trace[c], "popen", "raise")
    \/ Has(trace[c], "configure", "raise")
    \/ Has(trace[c], "analyse", "raise")
    \/ Has(trace[c], "analyse", "ok") /\ info[c].score = Null

Running == {h \in Handles : proc[h] = "running"}

(* C1: a call with a valid, parsable request in which spawning,            *)
(* configuring, analysing or normalizing faulted raises nothing and        *)
(* returns exactly {eval: {type: "cp", value: null}, best_move: null,      *)
(* ok: false}.                                                             *)
C1_FaultYieldsFixedFailure ==
    \A c \in Callers :
        Done(c) /\ op[c] = "evaluate" /\ ValidRequest(req[c]) /\ Faulted(c) =>
            result[c] = [kind |-> "return", type |-> "cp", value |-> <<>>,
                         best_move_uci |-> <<>>, ok |-> FALSE]

C1_Witness ==
    \E c \in Callers :
        /\ Done(c) /\ op[c] = "evaluate" /\ ValidRequest(req[c])
        /\ Has(trace[c], "analyse", "raise") /\ Has(trace[c], "quit", "raise")
        /\ result[c].kind = "return" /\ ~result[c].ok

(* C2: when evaluate_position has returned ok:false the slot is empty,     *)
(* whether the call started Absent or Ready, and no handle that was in the *)
(* slot when a call failed is handed to an analyse (warm-up included)      *)
(* afterwards.                                                             *)
C2_FailureLeavesAbsent ==
    \A c \in Callers :
        /\ Done(c) /\ op[c] = "evaluate" /\ result[c].kind = "return" /\ ~result[c].ok
              => engine = NoHandle
        /\ pc[c] = "analyse" => eng[c] \notin condemned
        /\ pc[c] = "warmup" => loc[c] \notin condemned

C2_Witness ==
    \E c \in Callers :
        /\ pc[c] = "analyse" /\ slot0[c] = NoHandle /\ eng[c] # NoHandle
        /\ Cardinality(condemned) >= 1
        /\ \E h \in condemned : proc[h] = "running"

(* C3: under single-caller execution at most one engine process that was   *)
(* started and not terminated exists, whatever faults occur.               *)
C3_AtMostOneLiveProcess == Cardinality(Running) <= 1

(* C4: a request whose time_ms is 0, negative or no integer, or whose      *)
(* position is no string or is empty, makes evaluate_position raise and    *)
(* changes nothing: no spawn, no reset, no quit, the slot as it was.       *)
C4_BadShapeRaisesUntouched ==
    [][\A c \in Callers :
          pc[c] = "idle" /\ pc'[c] # "idle" /\ op'[c] = "evaluate" /\ BadShape(req'[c]) =>
              /\ pc'[c] = "done"
              /\ result'[c].kind = "raise"
              /\ trace'[c] = <<>>
              /\ UNCHANGED <<engine, proc, spawns>>]_vars

C4_Witness ==
    \E c \in Callers :
        /\ Done(c) /\ op[c] = "evaluate" /\ BadShape(req[c])
        /\ req[c].time_ms = [kind |-> "int", v |-> 0] /\ req[c].fen = "black"
        /\ result[c].kind = "raise"
        /\ slot0[c] # NoHandle /\ engine = slot0[c] /\ proc[engine] = "running"

(* C5: a position string the parser rejects makes evaluate_position raise  *)
(* the parser's error before any engine interaction: no acquire, no spawn, *)
(* no reset, and a Ready handle stays in the slot.                         *)
C5_ParseErrorRaisesUntouched ==
    [][\A c \in Callers :
          /\ pc[c] = "idle" /\ pc'[c] # "idle" /\ op'[c] = "evaluate"
          /\ req'[c].fen = "malformed" /\ ~BadShape(req'[c])
          => /\ pc'[c] = "done"
             /\ result'[c].kind = "raise"
             /\ trace'[c] = <<>>
             /\ UNCHANGED <<engine, proc, spawns>>]_vars

C5_Witness ==
    \E c \in Callers :
        /\ Done(c) /\ op[c] = "evaluate"
        /\ req[c].fen = "malformed" /\ ~BadShape(req[c])
        /\ result[c].kind = "raise"
        /\ slot0[c] # NoHandle /\ engine = slot0[c] /\ proc[engine] = "running"

(* C6 as stated: after an analyse failure the very next valid call makes   *)
(* exactly one spawn and analyses on the newly spawned handle.             *)
C6_NextCallSpawnsAndAnalyses ==
    \A c \in Callers :
        Done(c) /\ recovering[c] =>
            /\ Count(trace[c], "popen") = 1
            /\ StartedBy(trace[c]) # {}
            /\ AnalysedOn(trace[c]) = StartedBy(trace[c])

(* C6 amended: after an analyse failure the very next valid call makes     *)
(* exactly one spawn attempt; when that spawn succeeds (the process starts *)
(* and configure returns) the call analyses on the newly spawned handle,   *)
(* and when it does not succeed the call analyses on no handle at all.     *)
C6_NextCallSpawnsOnce ==
    \A c \in Callers :
        Done(c) /\ recovering[c] =>
            /\ Count(trace[c], "popen") = 1
            /\ Count(trace[c], "log_spawn") = 1
            /\ IF Has(trace[c], "popen", "ok") /\ Has(trace[c], "configure", "ok")
               THEN AnalysedOn(trace[c]) = StartedBy(trace[c])
               ELSE AnalysedOn(trace[c]) = {}

C6_Witness ==
    \E c \in Callers :
        /\ Done(c) /\ recovering[c] /\ result[c].ok
        /\ Count(trace[c], "popen") = 1
        /\ AnalysedOn(trace[c]) = {engine} /\ engine \notin condemned
        /\ condemned # {}

(* C7: a valid request served without any fault returns ok:true with       *)
(* eval.type "cp" or "mate", from Absent and from Ready, and leaves in the *)
(* slot the handle the analysis ran on (the held one when started Ready).  *)
C7_HealthyCallSucceeds ==
    \A c \in Callers :
        /\ Done(c) /\ op[c] = "evaluate" /\ ValidRequest(req[c])
        /\ Healthy(c)
        => /\ result[c].kind = "return" /\ result[c].ok
           /\ result[c].type \in {"cp", "mate"}
           /\ engine # NoHandle /\ proc[engine] = "running"
           /\ AnalysedOn(trace[c]) = {engine}
           /\ slot0[c] # NoHandle => engine = slot0[c] /\ Count(trace[c], "popen") = 0
           /\ slot0[c] = NoHandle => StartedBy(trace[c]) = {engine}

C7_Witness ==
    \E c \in Callers :
        /\ Done(c) /\ op[c] = "evaluate" /\ ValidRequest(req[c])
        /\ Healthy(c)
        /\ slot0[c] # NoHandle /\ engine = slot0[c]
        /\ result[c].ok /\ result[c].type = "mate"

(* C8: close_engine never raises and never spawns, from any state, and     *)
(* leaves the slot empty; a close_engine that directly follows another     *)
(* close_engine issues no quit.                                            *)
C8_CloseIsIdempotent ==
    \A c \in Callers :
        Done(c) /\ op[c] = "close" =>
            /\ result[c].kind = "return"
            /\ engine = NoHandle
            /\ Count(trace[c], "log_spawn") = 0 /\ Count(trace[c], "popen") = 0
            /\ prev = "close" => Count(trace[c], "quit") = 0 /\ slot0[c] = NoHandle

C8_Witness ==
    \E c \in Callers :
        /\ Done(c) /\ op[c] = "close" /\ prev = "close"
        /\ engine = NoHandle /\ Count(trace[c], "quit") = 0
        /\ \E h \in Handles : proc[h] = "terminated"

(* C9: with two concurrent callers the acquire -> analyse -> reset         *)
(* sequences exclude each other: never two callers that both saw the slot  *)
(* empty and are spawning, and never an analyse on a handle another caller *)
(* is resetting or has quit.                                               *)
Spawning(c) == pc[c] \in {"spawn", "configure", "warmup", "store"}

Resetting(c) == pc[c] \in {"reset", "quit", "clear"}

C9_SequencesExclude ==
    \A c, d \in Callers :
        c # d =>
            /\ ~(Spawning(c) /\ Spawning(d))
            /\ pc[c] = "analyse" /\ eng[c] # NoHandle =>
                  /\ proc[eng[c]] # "terminated"
                  /\ ~(Resetting(d) /\ engine = eng[c])

(* C10: every call that has started completes: it returns a result or      *)
(* raises, given that each transport operation returns or raises.          *)
C10_EveryCallCompletes ==
    \A c \in Callers : (pc[c] \notin {"idle", "done"}) ~> (pc[c] = "done")

C10_Witness ==
    \E c \in Callers :
        /\ Done(c) /\ op[c] = "evaluate" /\ recovering[c]
        /\ Has(trace[c], "popen", "raise") /\ Has(trace[c], "log_reset", "FileNotFoundError")
        /\ result[c].kind = "return" /\ spawns = MaxSpawns

\* the events of a call's trace that act on the transport or the log of a spawn
SpawnOps == {"log_spawn", "popen", "configure", "warmup"}

(* C11: with a handle in the slot _get_engine hands out that handle and    *)
(* starts, configures and warms up nothing; a spawn is attempted only from *)
(* an empty slot, so a successful call that follows a call which left a    *)
(* handle uses that handle, and successful calls in a row share one spawn. *)
C11_AcquireIsIdempotent ==
    \A c \in Callers :
        /\ slot0[c] # NoHandle /\ op[c] = "evaluate" =>
              /\ \A i \in DOMAIN trace[c] : trace[c][i].op \notin SpawnOps
              /\ AnalysedOn(trace[c]) \subseteq {slot0[c]}
              /\ pc[c] = "analyse" => eng[c] = slot0[c] /\ engine = slot0[c]
              /\ Done(c) /\ result[c].ok => engine = slot0[c]
        /\ Count(trace[c], "popen") >= 1 => slot0[c] = NoHandle
        /\ pc[c] = "spawn" => engine = NoHandle

C11_Witness ==
    \E c \in Callers :
        /\ Done(c) /\ op[c] = "evaluate" /\ result[c].ok /\ prev = "evaluate"
        /\ slot0[c] # NoHandle /\ engine = slot0[c]
        /\ AnalysedOn(trace[c]) = {slot0[c]} /\ Len(trace[c]) = 1
        /\ spawns = 1

(* C12: a warm-up that fails is swallowed: the new handle is stored, the   *)
(* failure triggers no reset and no quit, the real analyse of the same     *)
(* call is issued next and on that handle, and when it answers with a      *)
(* score the call returns ok:true with the handle in the slot.             *)
C12_WarmupFailureSwallowed ==
    \A c \in Callers :
        \A i \in DOMAIN trace[c] :
            trace[c][i].op = "warmup" /\ trace[c][i].res = "raise" =>
                /\ Len(trace[c]) = i => pc[c] \in {"store", "return_engine", "analyse"}
                /\ Len(trace[c]) = i /\ pc[c] = "analyse" =>
                      engine = trace[c][i].h /\ eng[c] = trace[c][i].h
                /\ Len(trace[c]) > i =>
                      /\ trace[c][i + 1].op = "analyse"
                      /\ trace[c][i + 1].h = trace[c][i].h
                /\ /\ Done(c)
                   /\ Has(trace[c], "analyse", "ok") /\ info[c].score # Null
                   => /\ result[c].ok /\ engine = trace[c][i].h
                      /\ Count(trace[c], "log_reset") = 0
                      /\ Count(trace[c], "quit") = 0

C12_Witness ==
    \E c \in Callers :
        /\ Done(c) /\ Has(trace[c], "warmup", "raise") /\ result[c].ok
        /\ engine # NoHandle /\ StartedBy(trace[c]) = {engine}
        /\ AnalysedOn(trace[c]) = {engine}

(* C13: when the next acquisition starts a new process, every process      *)
(* started before has been sent quit and no handle is in the slot, also    *)
(* for a process whose configure failed during its spawn.                  *)
C13_FaultedProcessIsQuit ==
    \A c \in Callers :
        pc[c] = "spawn" =>
            /\ engine = NoHandle
            /\ \A h \in Handles : proc[h] # "unborn" => quits[h] >= 1

\* the positions of the events o in a trace
At(tr, o) == {i \in DOMAIN tr : tr[i].op = o}

(* C14: one call makes at most one spawn attempt and at most one real      *)
(* analyse, and once it has entered the reset it issues no spawn, no       *)
(* configure, no warm-up and no analyse before it returns.                 *)
C14_NoRetryWithinCall ==
    \A c \in Callers :
        /\ Count(trace[c], "popen") <= 1
        /\ Count(trace[c], "analyse") <= 1
        /\ Count(trace[c], "log_reset") <= 1
        /\ \A i \in At(trace[c], "log_reset") :
              \A j \in DOMAIN trace[c] :
                  j > i => trace[c][j].op = "quit"
        /\ Count(trace[c], "log_reset") = 1 =>
              pc[c] \in {"quit", "clear", "done"}

C14_Witness ==
    \E c \in Callers :
        /\ Done(c) /\ op[c] = "evaluate" /\ slot0[c] = NoHandle
        /\ Has(trace[c], "popen", "ok") /\ Has(trace[c], "analyse", "raise")
        /\ Has(trace[c], "quit", "ok")
        /\ Len(trace[c]) = 7 /\ engine = NoHandle

\* the call's reset found a handle in the slot
HeldAtReset(c) ==
    \/ slot0[c] # NoHandle
    \/ Has(trace[c], "popen", "ok") /\ Has(trace[c], "configure", "ok")

(* C15: a reset never raises and ends with the slot empty; it calls quit   *)
(* exactly once when a handle is held and not at all otherwise, and a quit *)
(* that raises still leaves the slot cleared.                              *)
C15_ResetEndsAbsent ==
    \A c \in Callers :
        Done(c) /\ Count(trace[c], "log_reset") >= 1 =>
            /\ engine = NoHandle
            /\ result[c].kind = "return"
            /\ Count(trace[c], "quit") = (IF HeldAtReset(c) THEN 1 ELSE 0)
            /\ \A i \in At(trace[c], "quit") :
                  trace[c][i].h # NoHandle /\ quits[trace[c][i].h] = 1

C15_Witness ==
    \E c \in Callers :
        /\ Done(c) /\ op[c] = "close" /\ slot0[c] # NoHandle
        /\ Has(trace[c], "quit", "raise") /\ proc[slot0[c]] = "running"
        /\ engine = NoHandle /\ result[c].kind = "return"

(* C16: a call whose analyse answered with a score returns ok:true; the    *)
(* result has type "mate" and the mate distance as value exactly when the  *)
(* score is a forced mate, otherwise type "cp" and the centipawns; its     *)
(* best move is the first move of the pv, or null for a missing or empty   *)
(* pv.                                                                     *)
C16_NormalizationClassifies ==
    \A c \in Callers :
        /\ Done(c) /\ op[c] = "evaluate"
        /\ Has(trace[c], "analyse", "ok") /\ info[c].score # Null
        => LET sc == info[c].score[1].relative
           IN  /\ result[c].kind = "return" /\ result[c].ok
               /\ result[c].type = "mate" <=> sc.kind = "mate"
               /\ result[c].type = "cp" <=> sc.kind = "cp"
               /\ result[c].value = <<sc.v>>
               /\ info[c].pv \in {"absent", "empty"} => result[c].best_move_uci = <<>>
               /\ info[c].pv = "e7e5" => result[c].best_move_uci = <<"e7e5">>

C16_Witness ==
    \E c \in Callers :
        /\ Done(c) /\ op[c] = "evaluate" /\ result[c].ok
        /\ info[c].score[1].relative = [kind |-> "mate", v |-> -1]
        /\ info[c].pv = "empty"
        /\ result[c].type = "mate" /\ result[c].value = <<-1>>
        /\ result[c].best_move_uci = <<>>

(* C17: the cp value returned is the engine's score for the side to move   *)
(* of the requested position: positive when the mover is favoured and      *)
(* negative when the mover is disfavoured, for white to move and for       *)
(* black to move alike.                                                    *)
C17_ScoreIsForMover ==
    \A c \in Callers :
        Done(c) /\ op[c] = "evaluate" /\ result[c].ok /\ result[c].type = "cp" =>
            LET ps == info[c].score[1]
            IN  /\ board[c] = req[c].fen /\ ps.turn = board[c]
                /\ ps.relative.v > 0 <=> result[c].value[1] > 0
                /\ ps.relative.v < 0 <=> result[c].value[1] < 0

C17_Witness ==
    \E c \in Callers :
        /\ Done(c) /\ op[c] = "evaluate" /\ result[c].ok /\ result[c].type = "cp"
        /\ req[c].fen = "black"
        /\ info[c].score[1].relative.v > 0 /\ result[c].value[1] > 0

(* C18: configure is called exactly once on every started handle, right    *)
(* after the process start and before any analyse on it, the warm-up       *)
(* included, and never again while the handle lives.                       *)
C18_ConfiguredOncePerHandle ==
    /\ \A h \in Handles :
          /\ configs[h] <= 1
          /\ proc[h] = "unborn" => configs[h] = 0
          /\ proc[h] # "unborn" =>
                \/ configs[h] = 1
                \/ \E c \in Callers : pc[c] = "configure" /\ loc[c] = h
    /\ \A c \in Callers :
          /\ pc[c] = "warmup" => configs[loc[c]] = 1
          /\ pc[c] = "analyse" /\ eng[c] # NoHandle => configs[eng[c]] = 1
          /\ \A i \in At(trace[c], "configure") :
                /\ i > 1 /\ trace[c][i - 1] = Ev("popen", trace[c][i].h, "ok")
          /\ \A i \in At(trace[c], "warmup") \cup At(trace[c], "analyse") :
                trace[c][i].h \in StartedBy(trace[c]) =>
                    \E j \in At(trace[c], "configure") :
                        j < i /\ trace[c][j] = Ev("configure", trace[c][i].h, "ok")

C18_Witness ==
    \E c \in Callers :
        /\ pc[c] = "analyse" /\ slot0[c] # NoHandle /\ eng[c] = slot0[c]
        /\ configs[eng[c]] = 1 /\ trace[c] = <<>>
        /\ \E h \in Handles : h # eng[c] /\ proc[h] = "terminated" /\ configs[h] = 1

\* the type name of the exception the call's fault raised
FaultName(c) ==
    IF Has(trace[c], "popen", "raise") THEN "FileNotFoundError"
    ELSE IF Has(trace[c], "configure", "raise") THEN "EngineError"
    ELSE IF Has(trace[c], "analyse", "raise") THEN "EngineTerminatedError"
    ELSE "KeyError"

(* C19: every spawn attempt is preceded by its log entry and every reset   *)
(* writes its log entry before any quit, also with no handle held; the     *)
(* entry carries the reason: the fault's type name after an engine         *)
(* failure, "manual close" for close_engine.                               *)
C19_SpawnAndResetAreLogged ==
    \A c \in Callers :
        /\ \A i \in At(trace[c], "popen") :
              i > 1 /\ trace[c][i - 1].op = "log_spawn"
        /\ \A i \in At(trace[c], "quit") :
              i > 1 /\ trace[c][i - 1].op = "log_reset"
        /\ pc[c] \in {"quit", "clear"} => Count(trace[c], "log_reset") = 1
        /\ pc[c] = "quit" => trace[c][Len(trace[c])].op = "log_reset"
        /\ Done(c) /\ op[c] = "close" =>
              trace[c][1] = Ev("log_reset", NoHandle, "manual close")
        /\ Done(c) /\ op[c] = "evaluate" /\ result[c].kind = "return" /\ ~result[c].ok =>
              \E i \in DOMAIN trace[c] :
                  trace[c][i] = Ev("log_reset", NoHandle, FaultName(c))

C19_Witness ==
    \E c \in Callers :
        /\ Done(c) /\ op[c] = "evaluate"
        /\ trace[c] = <<Ev("log_spawn", NoHandle, ""),
                        Ev("popen", NoHandle, "raise"),
                        Ev("log_reset", NoHandle, "FileNotFoundError")>>

(* C20: under single-caller execution quit is called at most once on a     *)
(* handle, and no configure, warm-up or analyse is issued on a handle that *)
(* quit was called on.                                                     *)
C20_NoUseAfterQuit ==
    /\ \A h \in Handles : quits[h] <= 1
    /\ \A c \in Callers :
          /\ pc[c] \in {"configure", "warmup"} => quits[loc[c]] = 0
          /\ pc[c] = "analyse" /\ eng[c] # NoHandle => quits[eng[c]] = 0
          /\ pc[c] = "quit" /\ engine # NoHandle => quits[engine] = 0

C20_Witness ==
    \E c \in Callers :
        /\ pc[c] = "analyse" /\ eng[c] # NoHandle /\ quits[eng[c]] = 0
        /\ \E h \in Handles : h # eng[c] /\ quits[h] = 1 /\ proc[h] = "running"

=============================================================================
